---- MODULE Spec2Model ----
(***************************************************************************)
(* Model of the ml-service inference path (src/ml-service/app.py): the     *)
(* bundle registry (load_model with the two process-wide caches), the      *)
(* request handlers health / ready / predict / metrics, the feature        *)
(* alignment and probability decoding inside predict, and the explanation  *)
(* ranker format_explanations; and of the trade simulation of the          *)
(* backtester (src/ml-service/backtest.py, simulate_trades).               *)
(*                                                                         *)
(* Requests are served by concurrent threads (the Flask server is          *)
(* threaded), so load_model is split where another thread can see the      *)
(* difference: L24-25 (cache lookup), L27-31 (existence check, deserialize *)
(* and insert), L33-45 (explainer slot and return).                        *)
(***************************************************************************)
EXTENDS Integers, Sequences, FiniteSets, TLC

VARIABLES fs, model_bundles, shap_explainers, heap, pc, req, bundle, resp,
          first_returned, inp, out

vars == <<fs, model_bundles, shap_explainers, heap, pc, req, bundle, resp,
          first_returned, inp, out>>

registryVars == <<fs, model_bundles, shap_explainers, heap, pc, req, bundle, resp,
                  first_returned>>

(***************************************************************************)
(* Bounds of the model.                                                    *)
(***************************************************************************)
NThreads == 2

MaxFeat == 3

MaxValue == 2

MaxPairs == 7

ProbUnit == 8

Threads == 1..NThreads

(***************************************************************************)
(* Generic helpers.                                                        *)
(***************************************************************************)
SeqsUpTo(S, n) == UNION {[1..k -> S] : k \in 0..n}

SeqsOfLen(S, n) == [1..n -> S]

Range(s) == {s[i] : i \in 1..Len(s)}

Min2(a, b) == IF a <= b THEN a ELSE b

Take(s, n) == SubSeq(s, 1, Min2(n, Len(s)))

LastN(s, n) == SubSeq(s, Len(s) - Min2(n, Len(s)) + 1, Len(s))

RECURSIVE Filter(_, _)
Filter(s, keep) ==
    IF s = <<>> THEN <<>>
    ELSE IF Head(s) \in keep THEN <<Head(s)>> \o Filter(Tail(s), keep)
    ELSE Filter(Tail(s), keep)

RECURSIVE SumSeq(_)
SumSeq(s) == IF s = <<>> THEN 0 ELSE Head(s) + SumSeq(Tail(s))

(***************************************************************************)
(* Feature names.  Keywords(name) is the set of the substrings tested by   *)
(* get_signal_from_feature that occur in name.lower().                     *)
(***************************************************************************)
RankNames ==
    <<"rsi_14", "Oversold_flag", "overbought_flag", "buy_imbalance",
      "imbalance_sell", "volume", "rsi_overbought", "spread", "funding">>

FeatNames == {"rsi_14", "overbought_flag", "volume"}

DefaultNames == <<"feature_0", "feature_1", "feature_2", "feature_3", "feature_4">>

Keywords(name) ==
    CASE name = "rsi_14" -> {"rsi"}
      [] name = "Oversold_flag" -> {"oversold"}
      [] name = "overbought_flag" -> {"overbought"}
      [] name = "buy_imbalance" -> {"imbalance", "buy"}
      [] name = "imbalance_sell" -> {"imbalance", "sell"}
      [] name = "rsi_overbought" -> {"rsi", "overbought"}
      [] OTHER -> {}

get_signal_from_feature(feature_name) ==
    LET kw == Keywords(feature_name) IN
    IF "rsi" \in kw \/ "oversold" \in kw THEN "LONG"
    ELSE IF "overbought" \in kw THEN "SHORT"
    ELSE IF "imbalance" \in kw /\ "buy" \in kw THEN "LONG"
    ELSE IF "imbalance" \in kw /\ "sell" \in kw THEN "SHORT"
    ELSE "signal"

(***************************************************************************)
(* format_explanations: zip, stable descending sort, top 6 positive,       *)
(* bottom 3 negative, rendered entries, first 6 of the concatenation.      *)
(* A pair is <<name, value>>; an explanation keeps the fields its text is  *)
(* rendered from.                                                          *)
(***************************************************************************)
Zip(names, values) ==
    [i \in 1..Min2(Len(names), Len(values)) |-> <<names[i], values[i]>>]

RECURSIVE InsertDesc(_, _)
InsertDesc(sorted, x) ==
    IF sorted = <<>> THEN <<x>>
    ELSE IF Head(sorted)[2] >= x[2] THEN <<Head(sorted)>> \o InsertDesc(Tail(sorted), x)
    ELSE <<x>> \o sorted

RECURSIVE SortDesc(_)
SortDesc(s) ==
    IF s = <<>> THEN <<>>
    ELSE InsertDesc(SortDesc(SubSeq(s, 1, Len(s) - 1)), s[Len(s)])

RECURSIVE SelectPairs(_, _)
SelectPairs(s, sign) ==
    IF s = <<>> THEN <<>>
    ELSE IF Head(s)[2] * sign > 0 THEN <<Head(s)>> \o SelectPairs(Tail(s), sign)
    ELSE SelectPairs(Tail(s), sign)

top_positive(feature_contribs) == Take(SelectPairs(feature_contribs, 1), 6)

(* L53: the last 3 negatives of the sorted list (top_negative_first: the  *)
(* first 3)                                                               *)
top_negative_first(feature_contribs) == Take(SelectPairs(feature_contribs, -1), 3)

top_negative(feature_contribs) == LastN(SelectPairs(feature_contribs, -1), 3)

Supports(fc) ==
    [name |-> fc[1], value |-> fc[2], kind |-> "supports",
     direction |-> get_signal_from_feature(fc[1])]

Reduces(fc) ==
    [name |-> fc[1], value |-> fc[2], kind |-> "reduces", direction |-> ""]

format_explanations(feature_names, contributions) ==
    LET feature_contribs == SortDesc(Zip(feature_names, contributions))
        pos == top_positive(feature_contribs)
        neg == top_negative(feature_contribs)
        explanations == [i \in 1..Len(pos) |-> Supports(pos[i])]
                        \o [i \in 1..Len(neg) |-> Reduces(neg[i])]
    IN Take(explanations, 6)

(***************************************************************************)
(* The body of predict after load_model has returned a bundle (L113-165).  *)
(*                                                                         *)
(* A bundle b is a record: feature_names (with has_names FALSE when the    *)
(* key is missing), n_features (the input width the scaler and the         *)
(* classifier were fit on), classes (label_encoder.classes_), lightgbm     *)
(* (base_models has a lightgbm entry), shap_ok (TreeExplainer can be       *)
(* built from it), meta ("none": no or empty metadata, "plain": metadata   *)
(* without a metrics record, "metrics": metadata with one), accuracyRange, *)
(* and metaStamp / metricsStamp: the metadata / metrics dictionary has a   *)
(* 'lastUpdated' key (the time itself is not modelled).                    *)
(*                                                                         *)
(* Real numbers are fixed point: a probability is a number of 1/ProbUnit.  *)
(* Null is JSON null.  names is [given, list]: given is FALSE when the     *)
(* request has no featureNames (or null).  env holds what the fitted       *)
(* objects return for this vector: proba (predict_proba), contribs and     *)
(* base (the explainer's values for the predicted class).                  *)
(***************************************************************************)
Null == -1

NoShap == [present |-> FALSE, featureNames |-> <<>>, values |-> <<>>, baseValue |-> Null]

Error(code, message) ==
    [code |-> code, error |-> message, signal |-> "", probability |-> Null,
     confidence |-> Null, accuracyRange |-> "", explanations |-> <<>>,
     probabilities |-> [BUY |-> Null, SELL |-> Null, HOLD |-> Null],
     shap |-> NoShap, vector |-> <<>>]

Truthy(names) == names.given /\ Len(names.list) > 0

trained_names(b, features) ==
    IF b.has_names THEN b.feature_names ELSE Take(DefaultNames, Len(features))

(* L118: the index of a name in the caller's list, 0 when it is not      *)
(* there; the dictionary keeps the last of several occurrences            *)
(* (IndexMapFirst: the first one).                                        *)
IndexMapFirst(requested_names, name) ==
    LET hits == {i \in 1..Len(requested_names) : requested_names[i] = name}
    IN IF hits = {} THEN 0 ELSE CHOOSE i \in hits : \A j \in hits : i <= j

IndexMap(requested_names, name) ==
    LET hits == {i \in 1..Len(requested_names) : requested_names[i] = name}
    IN IF hits = {} THEN 0 ELSE CHOOSE i \in hits : \A j \in hits : j <= i

Align(features, requested_names, feature_names) ==
    [j \in 1..Len(feature_names) |->
        IF IndexMap(requested_names, feature_names[j]) >= 1
        THEN features[IndexMap(requested_names, feature_names[j])]
        ELSE 0]

(* L117-122 (feature_vector_unaligned: the raw vector in both branches) *)
feature_vector_unaligned(features, names, feature_names) == features

feature_vector(features, names, feature_names) ==
    IF Truthy(names) THEN Align(features, names.list, feature_names) ELSE features

(* L130: np.argmax, the first index of the maximum (ArgmaxLast: the last) *)
ArgmaxLast(probabilities) ==
    CHOOSE i \in 1..Len(probabilities) :
        /\ \A j \in 1..Len(probabilities) : probabilities[j] <= probabilities[i]
        /\ \A j \in (i + 1)..Len(probabilities) : probabilities[j] < probabilities[i]

Argmax(probabilities) ==
    CHOOSE i \in 1..Len(probabilities) :
        /\ \A j \in 1..Len(probabilities) : probabilities[j] <= probabilities[i]
        /\ \A j \in 1..(i - 1) : probabilities[j] < probabilities[i]

Confidence(probability) == (probability * 100) \div ProbUnit

Transform(classes, label) == CHOOSE i \in 1..Len(classes) : classes[i] = label

ProbabilityOf(classes, probabilities, label) ==
    IF label \in Range(classes) THEN probabilities[Transform(classes, label)] ELSE Null

ShapPayload(feature_names, contribs, base) ==
    [present |-> TRUE, featureNames |-> feature_names, values |-> contribs,
     baseValue |-> base]

PredictBody(b, explainer, features, names, env) ==
    LET feature_names == trained_names(b, features)
        vector == feature_vector(features, names, feature_names)
        prediction_idx == Argmax(env.proba)
        probability == env.proba[prediction_idx]
    IN IF Truthy(names) /\ Len(names.list) # Len(features)
       THEN Error(400, "Feature count mismatch")
       ELSE IF Len(vector) # b.n_features
       THEN [Error(500, "X has a different number of features") EXCEPT !.vector = vector]
       ELSE [code |-> 200, error |-> "",
             signal |-> b.classes[prediction_idx],
             probability |-> probability,
             confidence |-> Confidence(probability),
             accuracyRange |-> IF b.meta = "none" THEN "" ELSE b.accuracyRange,
             explanations |-> IF explainer # 0
                              THEN format_explanations(feature_names, env.contribs)
                              ELSE <<>>,
             probabilities |-> [BUY |-> ProbabilityOf(b.classes, env.proba, "BUY"),
                                SELL |-> ProbabilityOf(b.classes, env.proba, "SELL"),
                                HOLD |-> ProbabilityOf(b.classes, env.proba, "HOLD")],
             shap |-> IF explainer # 0
                      THEN ShapPayload(feature_names, env.contribs, env.base)
                      ELSE NoShap,
             vector |-> vector]

(***************************************************************************)
(* Process state.  fs, model_bundles and shap_explainers are dictionaries  *)
(* keyed by path (a key is present iff it is in the DOMAIN).  A bundle     *)
(* object is heap[path][k]: the k-th object deserialized from that path;   *)
(* model_bundles[path] is such a k, shap_explainers[path] is 0 for None or *)
(* the k of the bundle the explainer was built from.  Per thread: pc is    *)
(* the position in the handler, req the request, bundle what load_model    *)
(* returned (0 for None, and again 0 once the handler has returned), resp  *)
(* the response.  first_returned[path] is the first bundle load_model      *)
(* returned for the path (0: none yet), and req.late tells that the call   *)
(* began after that return.                                                *)
(***************************************************************************)
DEFAULT_MODEL_PATH == "./models/latest/model_bundle.joblib"

MissingPath == "./models/missing/model_bundle.joblib"

Paths == {DEFAULT_MODEL_PATH, MissingPath}

EmptyDict == [x \in {} |-> 0]

Put(d, k, v) == [x \in (DOMAIN d) \cup {k} |-> IF x = k THEN v ELSE d[x]]

Get(d, k) == IF k \in DOMAIN d THEN d[k] ELSE 0

NoNames == [given |-> FALSE, list |-> <<>>]

Given(list) == [given |-> TRUE, list |-> list]

NoReq == [kind |-> "", path |-> "", features |-> <<>>, names |-> NoNames, late |-> FALSE]

NoResp == [code |-> 0]

MkBundle(names, has_names, n, classes, lightgbm, shap_ok, meta) ==
    [feature_names |-> names, has_names |-> has_names, n_features |-> n,
     classes |-> classes, lightgbm |-> lightgbm, shap_ok |-> shap_ok,
     meta |-> meta, accuracyRange |-> "80-85%", metaStamp |-> FALSE,
     metricsStamp |-> FALSE]

(* The artifacts the training pipeline may have written (train_model.py   *)
(* main): with or without a usable tree sub-model, and the three shapes   *)
(* of metadata the metrics handler distinguishes.                         *)
ServiceBundles ==
    {MkBundle(<<"rsi_14", "volume">>, TRUE, 2, <<"BUY", "HOLD", "SELL">>, TRUE, TRUE, "metrics"),
     MkBundle(<<"rsi_14", "volume">>, TRUE, 2, <<"BUY", "HOLD", "SELL">>, TRUE, FALSE, "plain"),
     MkBundle(<<"rsi_14", "volume">>, TRUE, 2, <<"BUY", "HOLD", "SELL">>, FALSE, FALSE, "none")}

(* Request bodies and fitted-object results the service model enumerates. *)
ServiceRequests ==
    {[features |-> <<1, 2>>, names |-> NoNames],
     [features |-> <<1, 2>>, names |-> Given(<<"volume", "rsi_14">>)]}

ServiceEnvs ==
    {[proba |-> <<3, 3, 2>>, contribs |-> <<1, -1>>, base |-> 0]}

RegistryInit ==
    /\ fs = EmptyDict
    /\ model_bundles = EmptyDict
    /\ shap_explainers = EmptyDict
    /\ heap = [p \in Paths |-> <<>>]
    /\ pc = [t \in Threads |-> "idle"]
    /\ req = [t \in Threads |-> NoReq]
    /\ bundle = [t \in Threads |-> 0]
    /\ resp = [t \in Threads |-> NoResp]
    /\ first_returned = [p \in Paths |-> 0]

Init ==
    /\ RegistryInit
    /\ inp = <<>>
    /\ out = <<>>

(* train_model.py save_bundle: the artifact appears at models/latest; it  *)
(* is immutable once written.  Nothing is ever written at MissingPath.    *)
save_bundle(p, c) ==
    /\ p \notin DOMAIN fs
    /\ fs' = Put(fs, p, c)
    /\ UNCHANGED <<model_bundles, shap_explainers, heap, pc, req, bundle, resp,
                   first_returned, inp, out>>

(* predict L101-106: an empty feature list is answered before load_model. *)
PredictEmpty(t) ==
    /\ pc[t] \in {"idle", "done"}
    /\ req' = [req EXCEPT ![t] = [NoReq EXCEPT !.kind = "predict",
                                               !.path = DEFAULT_MODEL_PATH]]
    /\ bundle' = [bundle EXCEPT ![t] = 0]
    /\ pc' = [pc EXCEPT ![t] = "done"]
    /\ resp' = [resp EXCEPT ![t] = Error(400, "No features provided")]
    /\ UNCHANGED <<fs, model_bundles, shap_explainers, heap, first_returned, inp, out>>

(***************************************************************************)
(* load_model, one action per access to the shared state.                  *)
(***************************************************************************)
Returns(p, k) ==
    first_returned' = IF first_returned[p] = 0 THEN [first_returned EXCEPT ![p] = k]
                      ELSE first_returned

(* A handler (or another caller) calls load_model(p): health and ready   *)
(* pass DEFAULT_MODEL_PATH, predict and metrics the same path read again  *)
(* from the environment.  Nothing shared is touched between the start of  *)
(* a handler and L24, so the call and the lookup are one step.  Until     *)
(* load_model returns, the handlers differ in nothing but their name and  *)
(* the request body they hold, so the thread records which handler it     *)
(* runs, and its body, when it resumes.                                   *)
(* L24-25: if model_path in model_bundles: return model_bundles[path]     *)
(* (CacheNeverHit: a lookup that never finds the entry.)                  *)
CacheNeverHit(p) == FALSE

CacheHit(p) == p \in DOMAIN model_bundles

Lookup(t, p) ==
    /\ pc[t] \in {"idle", "done"}
    /\ req' = [req EXCEPT ![t] = [NoReq EXCEPT !.path = p,
                                               !.late = first_returned[p] # 0]]
    /\ resp' = [resp EXCEPT ![t] = NoResp]
    /\ IF CacheHit(p)
       THEN /\ bundle' = [bundle EXCEPT ![t] = model_bundles[p]]
            /\ pc' = [pc EXCEPT ![t] = "ret"]
            /\ Returns(p, model_bundles[p])
       ELSE /\ bundle' = [bundle EXCEPT ![t] = 0]
            /\ pc' = [pc EXCEPT ![t] = "L27"]
            /\ UNCHANGED first_returned
    /\ UNCHANGED <<fs, model_bundles, shap_explainers, heap, inp, out>>

(* L27-31: if not os.path.exists(path): return None;                      *)
(* bundle = joblib.load(path); model_bundles[path] = bundle.              *)
(* The artifact never changes once it exists, so the existence check and  *)
(* the read are one step.  (StoreIfAbsent: an insert that keeps an entry  *)
(* already there, as dict.setdefault would.)                              *)
StoreIfAbsent(d, p, k) == IF p \in DOMAIN d THEN d ELSE Put(d, p, k)

Store(d, p, k) == Put(d, p, k)

Load(t) ==
    /\ pc[t] = "L27"
    /\ LET p == req[t].path
           k == Len(heap[p]) + 1
       IN IF p \notin DOMAIN fs
          THEN /\ pc' = [pc EXCEPT ![t] = "ret"]
               /\ UNCHANGED <<heap, model_bundles, bundle>>
          ELSE /\ heap' = [heap EXCEPT ![p] = Append(@, fs[p])]
               /\ model_bundles' = Store(model_bundles, p, k)
               /\ bundle' = [bundle EXCEPT ![t] = k]
               /\ pc' = [pc EXCEPT ![t] = "L33"]
    /\ UNCHANGED <<fs, shap_explainers, req, resp, first_returned, inp, out>>

(* L33-45: the explainer slot: the explainer when the bundle has a       *)
(* lightgbm sub-model and TreeExplainer succeeds, None otherwise.         *)
(* (ExplainerSlotUnchecked: the slot if a failed construction were kept.) *)
ExplainerSlotUnchecked(b, k) == IF b.lightgbm THEN k ELSE 0

ExplainerSlot(b, k) == IF b.lightgbm /\ b.shap_ok THEN k ELSE 0

Explain(t) ==
    /\ pc[t] = "L33"
    /\ LET p == req[t].path
           b == heap[p][bundle[t]]
       IN /\ shap_explainers' = Put(shap_explainers, p, ExplainerSlot(b, bundle[t]))
          /\ Returns(p, bundle[t])
    /\ pc' = [pc EXCEPT ![t] = "ret"]
    /\ UNCHANGED <<fs, model_bundles, heap, bundle, req, resp, inp, out>>

(***************************************************************************)
(* The callers, from the return of load_model to the response.             *)
(***************************************************************************)
Respond(t, kind, body, r) ==
    /\ pc[t] = "ret"
    /\ kind # "load" => req[t].path = DEFAULT_MODEL_PATH
    /\ pc' = [pc EXCEPT ![t] = "done"]
    /\ req' = [req EXCEPT ![t].kind = kind, ![t].features = body.features,
                          ![t].names = body.names, ![t].late = FALSE]
    /\ resp' = [resp EXCEPT ![t] = r]
    /\ bundle' = [bundle EXCEPT ![t] = 0]
    /\ UNCHANGED <<fs, model_bundles, shap_explainers, first_returned, inp, out>>

NoBody == [features |-> <<>>, names |-> NoNames]

(* a direct call of load_model(p) returns to its caller *)
RetLoad(t) ==
    /\ Respond(t, "load", NoBody, [code |-> 0])
    /\ UNCHANGED heap

(* health L79-87; the training pipeline stores no modelVersion in the     *)
(* bundle's metadata, so the field is null.                               *)
Health(t) ==
    /\ Respond(t, "health", NoBody,
               [code |-> 200,
                status |-> IF bundle[t] # 0 THEN "ready" ELSE "unavailable",
                models_loaded |-> Cardinality(DOMAIN model_bundles),
                modelVersion |-> Null])
    /\ UNCHANGED heap

(* ready L92-95 *)
Ready(t) ==
    /\ Respond(t, "ready", NoBody,
               IF bundle[t] # 0 THEN [code |-> 200, status |-> "ready"]
               ELSE [code |-> 503, status |-> "unavailable"])
    /\ UNCHANGED heap

(* predict L110-111: if bundle is None: 'Model not ready', 503           *)
(* (NotReadyAsException: the answer if None were used as a bundle and    *)
(* the handler's except clause caught the failure.)                      *)
NotReadyAsException == Error(500, "'NoneType' object has no attribute 'get'")

NotReady == Error(503, "Model not ready")

(* predict L109-167, for a request with a non-empty feature list *)
Predict(t, body) ==
    /\ Len(body.features) > 0
    /\ IF bundle[t] = 0
       THEN Respond(t, "predict", body, NotReady)
       ELSE \E env \in ServiceEnvs :
                Respond(t, "predict", body,
                        PredictBody(heap[req[t].path][bundle[t]],
                                    Get(shap_explainers, req[t].path),
                                    body.features, body.names, env))
    /\ UNCHANGED heap

(* metrics L172-178: metrics_payload is the bundle's own metrics record,  *)
(* or its metadata when that has no metrics, or a fresh dictionary when   *)
(* there is no metadata; 'lastUpdated' is then set on it in place.        *)
Stamp(b) ==
    IF b.meta = "metrics" THEN [b EXCEPT !.metricsStamp = TRUE]
    ELSE IF b.meta = "plain" THEN [b EXCEPT !.metaStamp = TRUE]
    ELSE b

Metrics(t) ==
    IF bundle[t] = 0
    THEN /\ Respond(t, "metrics", NoBody,
                    [code |-> 503, error |-> "Model not ready", lastUpdated |-> FALSE])
         /\ UNCHANGED heap
    ELSE /\ Respond(t, "metrics", NoBody,
                    [code |-> 200, error |-> "", lastUpdated |-> TRUE])
         /\ heap' = [heap EXCEPT ![req[t].path][bundle[t]] = Stamp(@)]

Next ==
    \/ \E c \in ServiceBundles : save_bundle(DEFAULT_MODEL_PATH, c)
    \/ \E t \in Threads, p \in Paths : Lookup(t, p)
    \/ \E t \in Threads : PredictEmpty(t)
    \/ \E t \in Threads : Load(t)
    \/ \E t \in Threads : Explain(t)
    \/ \E t \in Threads : RetLoad(t)
    \/ \E t \in Threads : Health(t)
    \/ \E t \in Threads : Ready(t)
    \/ \E t \in Threads, body \in ServiceRequests : Predict(t, body)
    \/ \E t \in Threads : Metrics(t)

Spec == Init /\ [][Next]_vars

(***************************************************************************)
(* predict and format_explanations as functions of their inputs: the      *)
(* input inp is drawn by the initial state, the call stores its result    *)
(* in out.                                                                 *)
(***************************************************************************)
Labels == <<"BUY", "HOLD", "SELL", "WAIT">>

(* label_encoder.classes_ is the sorted list of the labels seen in training *)
ClassLists == {Filter(Labels, S) : S \in (SUBSET Range(Labels)) \ {{}}}

Distributions(n) == {d \in SeqsOfLen(0..ProbUnit, n) : SumSeq(d) = ProbUnit}

DistinctSeqs(S, n) ==
    {q \in SeqsUpTo(S, n) : Len(q) >= 1 /\ \A i, j \in 1..Len(q) : i # j => q[i] # q[j]}

Zeros(n) == [i \in 1..n |-> 0]

(* bundles for the alignment inputs: trained on every list of distinct    *)
(* names, or (has_names FALSE) saved without the list                     *)
AlignBundles ==
    {MkBundle(q, TRUE, Len(q), <<"BUY", "HOLD", "SELL">>, FALSE, FALSE, "plain") :
        q \in DistinctSeqs(FeatNames, MaxFeat)}
    \cup {MkBundle(<<>>, FALSE, n, <<"BUY", "HOLD", "SELL">>, FALSE, FALSE, "plain") :
            n \in 1..MaxFeat}

AlignEnv(b) == [proba |-> <<3, 3, 2>>, contribs |-> Zeros(b.n_features), base |-> 0]

NameLists(n) == {NoNames} \cup {Given(l) : l \in SeqsUpTo(FeatNames, n)}

ShapeBundle(c) == MkBundle(<<"volume">>, TRUE, 1, c, TRUE, TRUE, "metrics")

(* contributions: two magnitudes of either sign, and zero *)
Contributions == {-2, -1, 0, 1, 2}

InitAlign ==
    /\ RegistryInit
    /\ \E b \in AlignBundles, f \in SeqsUpTo(0..MaxValue, MaxFeat) \ {<<>>},
          nm \in NameLists(MaxFeat) :
            inp = [b |-> b, explainer |-> 0, features |-> f, names |-> nm,
                   env |-> AlignEnv(b)]
    /\ out = <<>>

InitShape ==
    /\ RegistryInit
    /\ \E c \in ClassLists : \E d \in Distributions(Len(c)) :
            inp = [b |-> ShapeBundle(c), explainer |-> 1, features |-> <<1>>,
                   names |-> NoNames,
                   env |-> [proba |-> d, contribs |-> <<1>>, base |-> 0]]
    /\ out = <<>>

InitRank ==
    /\ RegistryInit
    /\ \E c \in SeqsUpTo(Contributions, MaxPairs) :
            inp = [feature_names |-> Take(RankNames, Len(c)), contributions |-> c]
    /\ out = <<>>

PredictCall ==
    /\ out = <<>>
    /\ out' = <<PredictBody(inp.b, inp.explainer, inp.features, inp.names, inp.env)>>
    /\ UNCHANGED <<registryVars, inp>>

RankCall ==
    /\ out = <<>>
    /\ out' = <<format_explanations(inp.feature_names, inp.contributions)>>
    /\ UNCHANGED <<registryVars, inp>>

SpecAlign == InitAlign /\ [][PredictCall]_vars

SpecShape == InitShape /\ [][PredictCall]_vars

SpecRank == InitRank /\ [][RankCall]_vars

(***************************************************************************)
(* The backtest simulator (src/ml-service/backtest.py, simulate_trades).   *)
(* Returns and PnL are in fixed point, PnlUnit units to 1.0 (one unit is   *)
(* 0.00001); the three cost inputs are in tenths of a basis point          *)
(* (BpsUnit units to one basis point), so fee 7.5 bps is 75.  Values are   *)
(* finite numbers; floating-point rounding is not modelled.                *)
(***************************************************************************)
MaxRows == 3

PnlUnit == 100000

BpsUnit == 10

Abs(x) == IF x < 0 THEN -x ELSE x

Max2(a, b) == IF a >= b THEN a ELSE b

(* a DataFrame: the two return columns may be missing from the frame *)
DataFrame(has_max, has_min, rows) ==
    [has_max |-> has_max, has_min |-> has_min, rows |-> rows]

(* L125, L127: row.get(column, 0) *)
RowGet(df, i, column) ==
    IF column = "max_future_return"
    THEN (IF df.has_max THEN df.rows[i].max_future_return ELSE 0)
    ELSE (IF df.has_min THEN df.rows[i].min_future_return ELSE 0)

(* L123-127: the PnL of row i before costs *)
Gross(df, i, pred) ==
    IF pred = "BUY" THEN RowGet(df, i, "max_future_return")
    ELSE IF pred = "SELL" THEN Abs(RowGet(df, i, "min_future_return"))
    ELSE 0

(* L128: (fee + slippage + funding) / 10000.0, in PnL units                *)
(* (CostAsPercent: the sum taken as a percentage, / 100.0)                 *)
CostAsPercent(fee, slippage, funding) ==
    ((fee + slippage + funding) * PnlUnit) \div (100 * BpsUnit)

Cost(fee, slippage, funding) ==
    ((fee + slippage + funding) * PnlUnit) \div (10000 * BpsUnit)

(* L122-129: TradeResult(pnl, direction) of row i                          *)
(* (TradeCostOnTrades: the cost charged only when a trade is taken)        *)
TradeCostOnTrades(df, predictions, cost, i) ==
    [pnl |-> Gross(df, i, predictions[i])
                - (IF predictions[i] \in {"BUY", "SELL"} THEN cost ELSE 0),
     direction |-> predictions[i]]

Trade(df, predictions, cost, i) ==
    [pnl |-> Gross(df, i, predictions[i]) - cost, direction |-> predictions[i]]

(* L120-129: the trades list after the loop over df.iterrows() *)
Trades(df, predictions, cost) ==
    [i \in 1..Len(df.rows) |-> Trade(df, predictions, cost, i)]

(* L119, L130: equity_curve = [0.0], then one running total per row *)
RECURSIVE EquityCurve(_)
EquityCurve(trades) ==
    IF trades = <<>> THEN <<0>>
    ELSE LET before == EquityCurve(Take(trades, Len(trades) - 1))
         IN  Append(before, before[Len(before)] + trades[Len(trades)].pnl)

(* L133: np.maximum.accumulate, the largest value up to each position     *)
(* (PeakOverall: np.max, the largest value of the whole series)            *)
RECURSIVE MaxOf(_)
MaxOf(s) ==
    IF Len(s) = 1 THEN s[1] ELSE Max2(MaxOf(Take(s, Len(s) - 1)), s[Len(s)])

PeakOverall(equity_series) == [i \in 1..Len(equity_series) |-> MaxOf(equity_series)]

Peak(equity_series) ==
    [i \in 1..Len(equity_series) |-> MaxOf(Take(equity_series, i))]

(* L134 *)
Drawdown(equity_series) ==
    [i \in 1..Len(equity_series) |-> equity_series[i] - Peak(equity_series)[i]]

(* L135: drawdown.min() *)
RECURSIVE MinOf(_)
MinOf(s) ==
    IF Len(s) = 1 THEN s[1] ELSE Min2(MinOf(Take(s, Len(s) - 1)), s[Len(s)])

(* L136 *)
Gains(trades) == SumSeq([i \in 1..Len(trades) |-> IF trades[i].pnl > 0 THEN trades[i].pnl ELSE 0])

(* L137: abs(sum of the negative PnLs), before the `or 1e-9` *)
Losses(trades) ==
    Abs(SumSeq([i \in 1..Len(trades) |-> IF trades[i].pnl < 0 THEN trades[i].pnl ELSE 0]))

(* L137-138: gains / (losses or 1e-9), kept as the fraction; floored says *)
(* that the denominator is the 1e-9 that stands for no losses             *)
ProfitFactor(trades) ==
    [gains |-> Gains(trades), losses |-> Losses(trades), floored |-> Losses(trades) = 0]

(* L118-145 *)
simulate_trades(df, predictions, fee, slippage, funding) ==
    LET trades        == Trades(df, predictions, Cost(fee, slippage, funding))
        equity_series == EquityCurve(trades)
    IN  [profitFactor |-> ProfitFactor(trades),
         maxDrawdown  |-> MinOf(Drawdown(equity_series)),
         totalPnl     |-> equity_series[Len(equity_series)],
         equityCurve  |-> equity_series]

(* the inputs of the simulator: returns of either sign, the three labels,  *)
(* the default costs of parse_args (7.5, 5 and 1 bps) or none              *)
MaxReturns == {-1000, 2000}

MinReturns == {-3000, 1000}

BacktestRows ==
    [max_future_return : MaxReturns, min_future_return : MinReturns]

BacktestLabels == {"BUY", "SELL", "HOLD"}

BacktestCosts ==
    {[fee |-> 75, slippage |-> 50, funding |-> 10],
     [fee |-> 0, slippage |-> 0, funding |-> 0]}

(* run_backtest L156-160 yields one prediction per row of the frame *)
InitBacktest ==
    /\ RegistryInit
    /\ \E rows \in SeqsUpTo(BacktestRows, MaxRows), has_max, has_min \in BOOLEAN,
          c \in BacktestCosts :
         \E predictions \in SeqsOfLen(BacktestLabels, Len(rows)) :
            inp = [df |-> DataFrame(has_max, has_min, rows),
                   predictions |-> predictions,
                   fee |-> c.fee, slippage |-> c.slippage, funding |-> c.funding]
    /\ out = <<>>

SimulateCall ==
    /\ out = <<>>
    /\ out' = <<simulate_trades(inp.df, inp.predictions, inp.fee, inp.slippage,
                                inp.funding)>>
    /\ UNCHANGED <<registryVars, inp>>

SpecBacktest == InitBacktest /\ [][SimulateCall]_vars

(***************************************************************************)
(* Properties of the bundle registry (specification Spec).                 *)
(***************************************************************************)
Starts(t) == pc[t] \in {"idle", "done"} /\ pc'[t] \in {"ret", "L27"}

Loading(p) == {t \in Threads : pc[t] \in {"L27", "L33"} /\ req[t].path = p}

Finished(t, kind) == pc[t] = "done" /\ req[t].kind = kind

Buildable(b) == b.lightgbm /\ b.shap_ok

(* C1, as claimed: once load_model has returned a bundle for a path, every *)
(* later call for that path returns that same bundle.                      *)
C1_SameBundleAsFirst ==
    \A t \in Threads :
        (pc[t] = "ret" /\ req[t].late) => bundle[t] = first_returned[req[t].path]

(* C1: a call of load_model that begins after a bundle has been returned   *)
(* for its path returns in one step the bundle the cache holds at that     *)
(* moment, with no existence check, no deserialization and no explainer    *)
(* construction (file system, heap and both caches are untouched); that    *)
(* bundle is the one first returned unless another load of the same file   *)
(* has been stored since.                                                  *)
C1_Idempotent ==
    [][\A t \in Threads :
        (Starts(t) /\ first_returned[req'[t].path] # 0) =>
            /\ pc'[t] = "ret"
            /\ req'[t].path \in DOMAIN model_bundles
            /\ bundle'[t] = model_bundles[req'[t].path]
            /\ UNCHANGED <<fs, heap, model_bundles, shap_explainers>>
            /\ (Len(heap[req'[t].path]) = 1 => bundle'[t] = first_returned[req'[t].path])]_vars

C1_Witness ==
    \E t \in Threads :
        /\ pc[t] = "ret" /\ req[t].late
        /\ bundle[t] # 0 /\ bundle[t] = first_returned[req[t].path]

(* C2: load_model for a path with no file returns None and leaves heap and *)
(* both caches as they are; predict with a non-empty feature list then     *)
(* answers 'Model not ready' (503); the miss is not remembered, so a load  *)
(* that finds the file stores and returns a bundle.                        *)
C2_Unresolvable ==
    [][\A t \in Threads :
        /\ (pc[t] = "L27" /\ pc'[t] # "L27" /\ req[t].path \notin DOMAIN fs) =>
              /\ pc'[t] = "ret" /\ bundle'[t] = 0
              /\ UNCHANGED <<heap, model_bundles, shap_explainers>>
        /\ (pc[t] = "L27" /\ pc'[t] # "L27" /\ req[t].path \in DOMAIN fs) =>
              /\ bundle'[t] # 0
              /\ req[t].path \in DOMAIN model_bundles'
              /\ model_bundles'[req[t].path] = bundle'[t]
              /\ heap'[req[t].path][bundle'[t]] = fs[req[t].path]
        /\ (pc[t] # "L27" /\ pc'[t] = "L27") => req'[t].path \notin DOMAIN model_bundles
        /\ (pc[t] = "ret" /\ pc'[t] = "done" /\ req'[t].kind = "predict" /\ bundle[t] = 0) =>
              /\ resp'[t].code = 503
              /\ resp'[t].error = "Model not ready"]_vars

C2_Witness ==
    \E t1, t2 \in Threads :
        /\ Finished(t1, "predict") /\ resp[t1] = NotReady
        /\ Finished(t2, "predict") /\ resp[t2].code = 200
        /\ req[t1].path = req[t2].path
        /\ req[t1].path \in DOMAIN model_bundles

(* C3: a bundle in the registry keeps the content it was loaded with: it   *)
(* equals the artifact at its path, metadata and metrics record included.  *)
C3_NeverMutated ==
    \A p \in DOMAIN model_bundles : heap[p][model_bundles[p]] = fs[p]

(* C4: concurrent first loads of one path: every loader holds a bundle of  *)
(* its own, the cache entry of the path is the bundle stored last, every   *)
(* returned bundle is a loaded one, and once no load of the path is in     *)
(* progress the path has its one entry and its one explainer slot.         *)
C4_ConcurrentLoads ==
    \A p \in Paths :
        /\ heap[p] # <<>> => (p \in DOMAIN model_bundles /\ model_bundles[p] = Len(heap[p]))
        /\ p \in DOMAIN model_bundles => heap[p] # <<>>
        /\ \A t \in Threads :
              (pc[t] = "L33" /\ req[t].path = p) =>
                  /\ bundle[t] \in 1..Len(heap[p])
                  /\ \A u \in Threads \ {t} :
                        (pc[u] = "L33" /\ req[u].path = p) => bundle[u] # bundle[t]
        /\ \A t \in Threads :
              (pc[t] = "ret" /\ req[t].path = p /\ bundle[t] # 0) =>
                  bundle[t] \in 1..Len(heap[p])
        /\ (heap[p] # <<>> /\ Loading(p) = {}) =>
              (p \in DOMAIN shap_explainers /\ shap_explainers[p] \in 0..Len(heap[p]))

C4_Witness ==
    /\ Len(heap[DEFAULT_MODEL_PATH]) >= 2
    /\ \A t \in Threads : pc[t] = "ret" /\ req[t].path = DEFAULT_MODEL_PATH /\ bundle[t] # 0
    /\ \E t1, t2 \in Threads : bundle[t1] # bundle[t2]

(* C5: when the explainer cannot be built (no lightgbm sub-model, or       *)
(* TreeExplainer fails) the bundle is cached and returned all the same,    *)
(* its slot is None once the load is over, and predict answers 200 with    *)
(* the numeric prediction, no explanations and a null shap payload.        *)
C5_SoftExplainer ==
    /\ \A p \in DOMAIN shap_explainers :
          shap_explainers[p] # 0 => Buildable(heap[p][shap_explainers[p]])
    /\ \A p \in DOMAIN model_bundles :
          (~Buildable(heap[p][model_bundles[p]]) /\ Loading(p) = {}) =>
              (p \in DOMAIN shap_explainers /\ shap_explainers[p] = 0)
    /\ \A t \in Threads :
          (Finished(t, "predict") /\ Len(req[t].features) > 0 /\ resp[t] # NotReady
             /\ ~Buildable(fs[req[t].path])) =>
              /\ resp[t].code = 200
              /\ resp[t].signal \in Range(fs[req[t].path].classes)
              /\ resp[t].probability \in 0..ProbUnit
              /\ resp[t].confidence \in 0..100
              /\ resp[t].probabilities.BUY # Null
              /\ resp[t].explanations = <<>>
              /\ resp[t].shap = NoShap

C5_Witness ==
    \E t \in Threads :
        /\ Finished(t, "predict") /\ resp[t].code = 200
        /\ fs[req[t].path].lightgbm
        /\ ~fs[req[t].path].shap_ok
        /\ req[t].path \in DOMAIN shap_explainers
        /\ shap_explainers[req[t].path] = 0

(***************************************************************************)
(* Properties of the feature alignment (specification SpecAlign).          *)
(***************************************************************************)
Called == out # <<>>

Handed == Called /\ out[1].code \in {200, 500}

Occurrences(list, name) == {i \in 1..Len(list) : list[i] = name}

(* C6: with a non-empty name list as long as the values, position j of the *)
(* aligned vector is the value paired with the last occurrence of          *)
(* trained_names[j] among the caller's names, 0 when it does not occur;    *)
(* the vector is as long as trained_names; names equal to trained_names    *)
(* give back the values.                                                   *)
C6_Alignment ==
    (Called /\ Truthy(inp.names) /\ Len(inp.names.list) = Len(inp.features)) =>
        LET tn == trained_names(inp.b, inp.features)
            v == out[1].vector
        IN /\ out[1].code \in {200, 500}
           /\ Len(v) = Len(tn)
           /\ \A j \in 1..Len(tn) :
                 LET occ == Occurrences(inp.names.list, tn[j])
                 IN /\ occ = {} => v[j] = 0
                    /\ \A i \in occ : (\A i2 \in occ : i2 <= i) => v[j] = inp.features[i]
           /\ inp.names.list = tn => v = inp.features

C6_Witness ==
    /\ Called /\ out[1].code = 200 /\ Truthy(inp.names) /\ inp.b.has_names
    /\ \E i, j \in 1..Len(inp.names.list) :
          /\ i < j /\ inp.names.list[i] = inp.names.list[j]
          /\ inp.features[i] # inp.features[j]
          /\ inp.features[i] # 0 /\ inp.features[j] # 0
          /\ inp.names.list[i] \in Range(inp.b.feature_names)
    /\ \E k \in 1..Len(inp.b.feature_names) :
          inp.b.feature_names[k] \notin Range(inp.names.list)
    /\ \E k \in 1..Len(inp.names.list) :
          inp.names.list[k] \notin Range(inp.b.feature_names)

(* C7: a supplied featureNames list whose length differs from the number   *)
(* of values, the empty list included, is answered with 400 'Feature       *)
(* count mismatch'.                                                        *)
C7_MismatchRejected ==
    (Called /\ inp.names.given /\ Len(inp.names.list) # Len(inp.features)) =>
        (out[1].code = 400 /\ out[1].error = "Feature count mismatch")

(* C8, as claimed: with or without names, the vector handed to the         *)
(* predictor is as long as trained_names.                                  *)
C8_AlwaysTrainedLength ==
    Handed => Len(out[1].vector) = Len(trained_names(inp.b, inp.features))

(* C8: with a non-empty name list the vector handed to the predictor is    *)
(* as long as trained_names; with no names or an empty list it is the raw  *)
(* vector, as long as the raw values; it is predicted on only when its     *)
(* length is the width the scaler was fit on, and refused (500) otherwise. *)
C8_OutputLength ==
    Handed =>
        /\ Truthy(inp.names) => Len(out[1].vector) = Len(trained_names(inp.b, inp.features))
        /\ ~Truthy(inp.names) => out[1].vector = inp.features
        /\ out[1].code = 200 <=> Len(out[1].vector) = inp.b.n_features

C8_Witness ==
    /\ Handed /\ out[1].code = 200 /\ Truthy(inp.names) /\ inp.b.has_names
    /\ Len(inp.features) # Len(inp.b.feature_names)
    /\ Len(out[1].vector) = Len(inp.b.feature_names)

(***************************************************************************)
(* Properties of the decoded prediction (specification SpecShape).         *)
(***************************************************************************)
Canonical == {"BUY", "SELL", "HOLD"}

(* C9: a successful response has a probability in [0,1] that is the        *)
(* greatest of the distribution, the signal of the first class that        *)
(* attains it, confidence = floor(probability * 100) in 0..100, and a      *)
(* probability map with exactly the keys BUY, SELL, HOLD, null exactly for *)
(* the labels that are not trained classes; fewer classes never fail.      *)
C9_PredictionShape ==
    Called =>
        LET r == out[1]
            p == inp.env.proba
            c == inp.b.classes
        IN /\ r.code = 200
           /\ r.probability \in 0..ProbUnit
           /\ \A i \in 1..Len(p) : p[i] <= r.probability
           /\ \E i \in 1..Len(p) :
                 /\ p[i] = r.probability
                 /\ \A j \in 1..(i - 1) : p[j] < r.probability
                 /\ r.signal = c[i]
           /\ r.confidence \in 0..100
           /\ r.confidence * ProbUnit <= r.probability * 100
           /\ r.probability * 100 < (r.confidence + 1) * ProbUnit
           /\ DOMAIN r.probabilities = Canonical
           /\ \A l \in Canonical :
                 /\ r.probabilities[l] = Null <=> l \notin Range(c)
                 /\ \A i \in 1..Len(c) : c[i] = l => r.probabilities[l] = p[i]

C9_Witness ==
    /\ Called /\ out[1].code = 200
    /\ Len(inp.b.classes) = 2 /\ "BUY" \notin Range(inp.b.classes)
    /\ inp.env.proba[1] = inp.env.proba[2]
    /\ out[1].signal = inp.b.classes[1]
    /\ out[1].probabilities.BUY = Null
    /\ out[1].confidence = 50

(***************************************************************************)
(* Properties of the explanation ranker (specification SpecRank).          *)
(***************************************************************************)
CountAtLeast(c, v) == Cardinality({i \in 1..Len(c) : c[i] >= v})

CountBelow(c, v) == Cardinality({i \in 1..Len(c) : c[i] < v})

Entries(e, kind) == {i \in 1..Len(e) : e[i].kind = kind}

(* C10: at most 6 entries; supports are positive and reductions negative;  *)
(* supports come first; the supports are the min(6, #positive) largest     *)
(* positive contributions in descending order; every reduction is one of   *)
(* the 3 most negative contributions; reductions fill only the places the  *)
(* supports leave free among the 6, so with 6 supports there is none.      *)
C10_RankerBounds ==
    Called =>
        LET e == out[1]
            c == inp.contributions
            sup == Entries(e, "supports")
            red == Entries(e, "reduces")
            npos == CountAtLeast(c, 1)
            nneg == CountBelow(c, 0)
        IN /\ Len(e) <= 6
           /\ sup \cup red = 1..Len(e)
           /\ \A i \in sup : e[i].value > 0
           /\ \A i \in red : e[i].value < 0
           /\ \A i \in sup, j \in red : i < j
           /\ \A i \in 1..Len(e) : \E k \in 1..Len(c) :
                 inp.feature_names[k] = e[i].name /\ c[k] = e[i].value
           /\ \A i, j \in 1..Len(e) : i # j => e[i].name # e[j].name
           /\ Cardinality(sup) = Min2(6, npos)
           /\ \A i, j \in sup : i < j => e[i].value >= e[j].value
           /\ \A v \in Contributions :
                 v > 0 => Cardinality({i \in sup : e[i].value >= v})
                             = Min2(Cardinality(sup), CountAtLeast(c, v))
           /\ \A i \in red : CountBelow(c, e[i].value) <= 2
           /\ \A i, j \in red : i < j => e[i].value >= e[j].value
           /\ Cardinality(red) = Min2(Min2(3, nneg), 6 - Cardinality(sup))
           /\ (red # {} => Cardinality(sup) < 6)

C10_Witness ==
    /\ Called /\ Len(out[1]) = 6
    /\ Cardinality(Entries(out[1], "supports")) = 4
    /\ Cardinality(Entries(out[1], "reduces")) = 2
    /\ CountBelow(inp.contributions, 0) = 3
    /\ \E i \in Entries(out[1], "supports") : out[1][i].value # out[1][1].value
    /\ \A i \in Entries(out[1], "reduces") : out[1][i].value = -1

(***************************************************************************)
(* Properties of the backtest simulator (specification SpecBacktest).      *)
(***************************************************************************)
Simulated == out # <<>> /\ "predictions" \in DOMAIN inp

NonDecreasing(curve) == \A i \in 1..(Len(curve) - 1) : curve[i] <= curve[i + 1]

(* C11: for every dataset, the empty one included, and its predictions,    *)
(* the equity curve has one element more than the dataset has rows, begins *)
(* with 0 and ends with the reported total PnL; the reported max drawdown  *)
(* is at most 0, and is 0 exactly when the curve never decreases.          *)
C11_CurveInvariants ==
    Simulated =>
        LET r == out[1]
            n == Len(inp.df.rows)
        IN  /\ Len(r.equityCurve) = n + 1
            /\ r.equityCurve[1] = 0
            /\ r.equityCurve[n + 1] = r.totalPnl
            /\ r.maxDrawdown <= 0
            /\ (r.maxDrawdown = 0) <=> NonDecreasing(r.equityCurve)

C11_Witness ==
    /\ Simulated
    /\ Len(inp.df.rows) = 3
    /\ out[1].maxDrawdown < 0
    /\ out[1].totalPnl > 0
    /\ out[1].equityCurve[2] > 0
    /\ out[1].equityCurve[3] < out[1].equityCurve[2]
    /\ out[1].equityCurve[4] = out[1].totalPnl

(* the reference scenario: 3 rows predicted BUY, SELL, HOLD, with          *)
(* max-future-return 0.02 on row 1 and min-future-return -0.03 on row 2    *)
(* (the other cells are any), costs 7.5 + 5 + 1 bps                        *)
ReferenceScenario ==
    /\ Simulated
    /\ inp.predictions = <<"BUY", "SELL", "HOLD">>
    /\ inp.df.has_max /\ inp.df.has_min
    /\ inp.df.rows[1].max_future_return = 2000
    /\ inp.df.rows[2].min_future_return = -3000
    /\ inp.fee = 75 /\ inp.slippage = 50 /\ inp.funding = 10

RowPnls(curve) == [i \in 1..(Len(curve) - 1) |-> curve[i + 1] - curve[i]]

(* C12, as claimed: the reference scenario yields row PnLs 0.01865,        *)
(* 0.02865, -0.00135, the equity curve 0, 0.01865, 0.0473, 0.04595 and     *)
(* max drawdown 0.                                                         *)
C12_ReferenceAsClaimed ==
    ReferenceScenario =>
        /\ RowPnls(out[1].equityCurve) = <<1865, 2865, -135>>
        /\ out[1].equityCurve = <<0, 1865, 4730, 4595>>
        /\ out[1].maxDrawdown = 0

(* C12: the reference scenario yields row PnLs 0.01865, 0.02865, -0.00135, *)
(* the equity curve 0, 0.01865, 0.0473, 0.04595, total PnL 0.04595 and max *)
(* drawdown -0.00135 (the last point lies 0.00135 below the peak 0.0473).  *)
C12_Reference ==
    ReferenceScenario =>
        /\ RowPnls(out[1].equityCurve) = <<1865, 2865, -135>>
        /\ out[1].equityCurve = <<0, 1865, 4730, 4595>>
        /\ out[1].totalPnl = 4595
        /\ out[1].maxDrawdown = -135

C12_Witness ==
    /\ ReferenceScenario
    /\ out[1].equityCurve[3] = 4730
    /\ out[1].maxDrawdown = out[1].equityCurve[4] - out[1].equityCurve[3]

(* the gross PnL the row at position i is to yield under prediction i:    *)
(* its max-future-return for BUY, the absolute value of its                *)
(* min-future-return for SELL (0 for a field the dataset lacks), 0 for any *)
(* other label                                                             *)
ClaimedGross(i) ==
    LET row == inp.df.rows[i]
    IN  CASE inp.predictions[i] = "BUY" ->
                IF inp.df.has_max THEN row.max_future_return ELSE 0
          [] inp.predictions[i] = "SELL" ->
                IF ~inp.df.has_min THEN 0
                ELSE IF row.min_future_return < 0 THEN 0 - row.min_future_return
                ELSE row.min_future_return
          [] OTHER -> 0

(* (fee_bps + slippage_bps + funding_bps) / 10000 in PnL units *)
ClaimedCost == ((inp.fee + inp.slippage + inp.funding) * PnlUnit) \div (10000 * BpsUnit)

(* C13: rows are taken in input order, row i with prediction i: for every  *)
(* i the step of the equity curve from position i to i+1 is the gross PnL  *)
(* of row i under prediction i minus (fee + slippage + funding) / 10000,   *)
(* and the cost is subtracted on every row, HOLD rows included.            *)
C13_PerRowPnl ==
    Simulated =>
        /\ Len(out[1].equityCurve) = Len(inp.df.rows) + 1
        /\ \A i \in 1..Len(inp.df.rows) :
              /\ out[1].equityCurve[i + 1] - out[1].equityCurve[i]
                    = ClaimedGross(i) - ClaimedCost
              /\ (inp.predictions[i] \notin {"BUY", "SELL"}) =>
                    out[1].equityCurve[i + 1] = out[1].equityCurve[i] - ClaimedCost

C13_Witness ==
    /\ Simulated
    /\ ClaimedCost = 135
    /\ inp.df.has_max /\ inp.df.has_min
    /\ inp.predictions = <<"HOLD", "SELL", "BUY">>
    /\ inp.df.rows[2].min_future_return = 1000
    /\ inp.df.rows[2].max_future_return = 2000
    /\ inp.df.rows[3].max_future_return = -1000
    /\ inp.df.rows[3].min_future_return = -3000
    /\ out[1].equityCurve = <<0, -135, 730, -405>>

(***************************************************************************)
(* The explainer cache against the bundle cache (specification Spec).      *)
(***************************************************************************)
SlotForEveryBundle == DOMAIN model_bundles \subseteq DOMAIN shap_explainers

ExplainedWhenBuildable ==
    \A t \in Threads :
        (Finished(t, "predict") /\ resp[t].code = 200
            /\ Buildable(fs[req[t].path])) =>
                /\ resp[t].explanations # <<>>
                /\ resp[t].shap # NoShap

(* C14: in every reachable state, the intermediate states of interleaved   *)
(* loads and predicts included, every path of the bundle cache has a slot  *)
(* in the explainer cache, and a predict served from a bundle whose        *)
(* explainer can be built is answered with explanations.                   *)
C14_KeyedIdentically == SlotForEveryBundle /\ ExplainedWhenBuildable

====
